---------------------------- MODULE Spec2Model ----------------------------
(***************************************************************************)
(* Model of Analysis.py: the accuracy model of a sequential pipeline of    *)
(* agents (AgenticPipelineAnalyzer) and the feedback transforms            *)
(* (FeedbackMechanism).                                                    *)
(*                                                                         *)
(* Python floats are modelled as exact rationals [num, den] in lowest      *)
(* terms with den > 0; IEEE-754 rounding and underflow are not modelled.   *)
(* Every operation of the program is a pure call.  The caller is either    *)
(* between calls (call = Idle) or holds the outcome of the call it just     *)
(* made (a returned value or a raised exception); the analyzer's results   *)
(* dict is the only field of the program.                                  *)
(***************************************************************************)
EXTENDS Integers, Sequences, FiniteSets, TLC

VARIABLES results, call, outcome

vars == <<results, call, outcome>>

(***************************************************************************)
(* Bounds of the input space.                                              *)
(***************************************************************************)
\* accuracies k/CoarseDen, tried with chain lengths up to MaxN
CoarseDen == 10
MaxN == 5
\* accuracies k/FineDen (steps of at most 0.01), tried with chain lengths
\* up to MaxNFine
FineDen == 100
MaxNFine == 2
\* retry counts tried with retry_feedback
MaxRetries == 4

(***************************************************************************)
(* Rational arithmetic: the float operations of the source.                *)
(***************************************************************************)
Abs(i) == IF i < 0 THEN -i ELSE i

RECURSIVE Gcd(_, _)
Gcd(a, b) == IF b = 0 THEN a ELSE Gcd(b, a % b)

RECURSIVE IPow(_, _)
IPow(b, k) == IF k = 0 THEN 1 ELSE b * IPow(b, k - 1)

\* the float with numerator n and denominator d, as given
Q(n, d) == [num |-> n, den |-> d]

Num(x) == x.num
Den(x) == x.den

\* the float n/d in lowest terms, d # 0
Rat(n, d) ==
    LET s == IF d < 0 THEN -1 ELSE 1
        g == Gcd(Abs(n), Abs(d))
    IN  Q((s * n) \div g, (s * d) \div g)

Zero == Q(0, 1)
One == Q(1, 1)
FromInt(i) == Q(i, 1)

\* x + y
RAdd(x, y) ==
    LET g == Gcd(Den(x), Den(y))
    IN  Rat(Num(x) * (Den(y) \div g) + Num(y) * (Den(x) \div g),
            (Den(x) \div g) * Den(y))

RNeg(x) == Q(-Num(x), Den(x))

\* x - y
RSub(x, y) == RAdd(x, RNeg(y))

\* x * y
RMul(x, y) ==
    LET g1 == Gcd(Abs(Num(x)), Den(y))
        g2 == Gcd(Abs(Num(y)), Den(x))
    IN  Q((Num(x) \div g1) * (Num(y) \div g2),
          (Den(x) \div g2) * (Den(y) \div g1))

\* 1 / x, x # 0
RInv(x) == IF Num(x) < 0 THEN Q(-Den(x), -Num(x)) ELSE Q(Den(x), Num(x))

\* x / y, y # 0
RDiv(x, y) == RMul(x, RInv(y))

\* x < y
RLess(x, y) ==
    LET g == Gcd(Den(x), Den(y))
    IN  Num(x) * (Den(y) \div g) < Num(y) * (Den(x) \div g)

\* x <= y
RLeq(x, y) == ~RLess(y, x)

\* x ** k for an int k, where x # 0 or k >= 0
RPow(x, k) ==
    IF k >= 0 THEN Q(IPow(Num(x), k), IPow(Den(x), k))
    ELSE RInv(Q(IPow(Num(x), -k), IPow(Den(x), -k)))

(***************************************************************************)
(* Outcomes of a call.                                                     *)
(***************************************************************************)
\* the call returned v
Return(v) == [kind |-> "return", value |-> v]

\* the call raised exception e with message m, and returned nothing
Raise(e, m) == [kind |-> "raise", exc |-> e, msg |-> m]

AccuracyMsg == "Agent accuracy must be between 0 and 1 (inclusive)"
ChainLengthMsg == "Number of agents must be positive"
PowMsg == "0.0 cannot be raised to a negative power"
DivMsg == "float division by zero"

\* x ** k as Python evaluates it
PyPow(x, k) ==
    IF x = Zero /\ k < 0 THEN Raise("ZeroDivisionError", PowMsg)
    ELSE Return(RPow(x, k))

\* x / y as Python evaluates it
PyDiv(x, y) ==
    IF y = Zero THEN Raise("ZeroDivisionError", DivMsg)
    ELSE Return(RDiv(x, y))

(***************************************************************************)
(* AgenticPipelineAnalyzer                                                 *)
(***************************************************************************)
\* mutant: the lower bound of the accuracy check is not strict
calculate_system_accuracy_accepts_zero(agent_accuracy, num_agents) ==
    IF ~(RLeq(Zero, agent_accuracy) /\ RLeq(agent_accuracy, One))
    THEN Raise("ValueError", AccuracyMsg)
    ELSE IF num_agents <= 0
    THEN Raise("ValueError", ChainLengthMsg)
    ELSE Return(RPow(agent_accuracy, num_agents))

\* mutant: * in place of **
calculate_system_accuracy_times(agent_accuracy, num_agents) ==
    IF ~(RLess(Zero, agent_accuracy) /\ RLeq(agent_accuracy, One))
    THEN Raise("ValueError", AccuracyMsg)
    ELSE IF num_agents <= 0
    THEN Raise("ValueError", ChainLengthMsg)
    ELSE Return(RMul(agent_accuracy, FromInt(num_agents)))

\* mutant: the exponent is one short
calculate_system_accuracy_short(agent_accuracy, num_agents) ==
    IF ~(RLess(Zero, agent_accuracy) /\ RLeq(agent_accuracy, One))
    THEN Raise("ValueError", AccuracyMsg)
    ELSE IF num_agents <= 0
    THEN Raise("ValueError", ChainLengthMsg)
    ELSE Return(RPow(agent_accuracy, num_agents - 1))

calculate_system_accuracy(agent_accuracy, num_agents) ==
    IF ~(RLess(Zero, agent_accuracy) /\ RLeq(agent_accuracy, One))
    THEN Raise("ValueError", AccuracyMsg)
    ELSE IF num_agents <= 0
    THEN Raise("ValueError", ChainLengthMsg)
    ELSE Return(RPow(agent_accuracy, num_agents))

calculate_derivative(agent_accuracy, num_agents) ==
    LET pw == PyPow(agent_accuracy, num_agents - 1)
    IN  IF pw.kind = "raise" THEN pw
        ELSE Return(RMul(FromInt(num_agents), pw.value))

\* mutant: the operands of the difference are swapped
absolute_gain_swapped(improved_system_acc, base_system_acc) ==
    RSub(base_system_acc, improved_system_acc)

\* line 31
absolute_gain(improved_system_acc, base_system_acc) ==
    RSub(improved_system_acc, base_system_acc)

\* line 33
multiplicative_ratio(improved_system_acc, base_system_acc) ==
    PyDiv(improved_system_acc, base_system_acc)

\* mutant: the exponent is num_agents, not num_agents - 1
theoretical_gain_at_power_n(num_agents, base_accuracy, delta_p) ==
    LET pw == PyPow(base_accuracy, num_agents)
    IN  IF pw.kind = "raise" THEN pw
        ELSE Return(RMul(RMul(FromInt(num_agents), pw.value), delta_p))

\* mutant: the slope is taken at the improved accuracy, not at the base
theoretical_gain_at_improved(num_agents, base_accuracy, delta_p) ==
    LET pw == PyPow(RAdd(base_accuracy, delta_p), num_agents - 1)
    IN  IF pw.kind = "raise" THEN pw
        ELSE Return(RMul(RMul(FromInt(num_agents), pw.value), delta_p))

\* line 34
theoretical_gain(num_agents, base_accuracy, delta_p) ==
    LET pw == PyPow(base_accuracy, num_agents - 1)
    IN  IF pw.kind = "raise" THEN pw
        ELSE Return(RMul(RMul(FromInt(num_agents), pw.value), delta_p))

\* lines 28, 31-44: the report, once both system accuracies are computed
gain_report(base_accuracy, improved_accuracy, num_agents, base_system_acc, improved_system_acc) ==
    LET delta_p == RSub(improved_accuracy, base_accuracy)
        abs_gain == absolute_gain(improved_system_acc, base_system_acc)
        quotient == PyDiv(abs_gain, base_system_acc)
        ratio == multiplicative_ratio(improved_system_acc, base_system_acc)
        theoretical == theoretical_gain(num_agents, base_accuracy, delta_p)
    IN  IF quotient.kind = "raise" THEN quotient
        ELSE IF ratio.kind = "raise" THEN ratio
        ELSE IF theoretical.kind = "raise" THEN theoretical
        ELSE Return([base_system_accuracy |-> base_system_acc,
                     improved_system_accuracy |-> improved_system_acc,
                     absolute_gain |-> abs_gain,
                     relative_gain_percent |->
                         RMul(quotient.value, FromInt(100)),
                     multiplicative_ratio |-> ratio.value,
                     theoretical_gain_approx |-> theoretical.value,
                     delta_p |-> delta_p])

\* mutant: the improved accuracy is raised to the power without validation
calculate_improvement_gain_unchecked(base_accuracy, improved_accuracy, num_agents) ==
    LET base_system_acc == calculate_system_accuracy(base_accuracy, num_agents)
    IN  IF base_system_acc.kind = "raise" THEN base_system_acc
        ELSE gain_report(base_accuracy, improved_accuracy, num_agents,
                         base_system_acc.value,
                         RPow(improved_accuracy, num_agents))

calculate_improvement_gain(base_accuracy, improved_accuracy, num_agents) ==
    LET base_system_acc == calculate_system_accuracy(base_accuracy, num_agents)
        improved_system_acc ==
            calculate_system_accuracy(improved_accuracy, num_agents)
    IN  IF base_system_acc.kind = "raise" THEN base_system_acc
        ELSE IF improved_system_acc.kind = "raise" THEN improved_system_acc
        ELSE gain_report(base_accuracy, improved_accuracy, num_agents,
                         base_system_acc.value, improved_system_acc.value)

(***************************************************************************)
(* FeedbackMechanism                                                       *)
(***************************************************************************)
\* mutant: the verifier's share is not scaled by the failure rate
verification_feedback_unscaled(base_accuracy, verification_accuracy) ==
    Return(RAdd(base_accuracy, verification_accuracy))

verification_feedback(base_accuracy, verification_accuracy) ==
    Return(RAdd(base_accuracy,
                RMul(RSub(One, base_accuracy), verification_accuracy)))

retry_feedback(base_accuracy, num_retries) ==
    LET pw == PyPow(RSub(One, base_accuracy), num_retries)
    IN  IF pw.kind = "raise" THEN pw ELSE Return(RSub(One, pw.value))

self_checking_feedback(base_accuracy, check_accuracy) ==
    Return(RAdd(base_accuracy,
                RMul(RMul(RSub(One, base_accuracy), check_accuracy),
                     Rat(4, 5))))

(***************************************************************************)
(* Inputs.                                                                 *)
(***************************************************************************)
CoarseAccs == {Rat(k, CoarseDen) : k \in -1..(CoarseDen + 1)}

FineAccs == {Rat(k, FineDen) : k \in -1..(FineDen + 1)}

Grids == {CoarseAccs, FineAccs}

\* the chain lengths tried with the accuracies of grid G
Chains(G) == IF G = CoarseAccs THEN -1..MaxN ELSE -1..MaxNFine

Retries == -1..MaxRetries

(***************************************************************************)
(* The state machine: one action per operation.                            *)
(***************************************************************************)
Idle == [op |-> "idle"]

\* between calls the caller holds no outcome
NoOutcome == [kind |-> "none"]

Init ==
    /\ results = <<>>
    /\ call = Idle
    /\ outcome = NoOutcome

CallSystemAccuracy ==
    /\ call = Idle
    /\ \E G \in Grids : \E p \in G, n \in Chains(G) :
           /\ call' = [op |-> "calculate_system_accuracy",
                       agent_accuracy |-> p, num_agents |-> n]
           /\ outcome' = calculate_system_accuracy(p, n)
    /\ UNCHANGED results

CallDerivative ==
    /\ call = Idle
    /\ \E G \in Grids : \E p \in G, n \in Chains(G) :
           /\ call' = [op |-> "calculate_derivative",
                       agent_accuracy |-> p, num_agents |-> n]
           /\ outcome' = calculate_derivative(p, n)
    /\ UNCHANGED results

CallImprovementGain ==
    /\ call = Idle
    /\ \E G \in Grids : \E b \in G, i \in G, n \in Chains(G) :
           /\ call' = [op |-> "calculate_improvement_gain",
                       base_accuracy |-> b, improved_accuracy |-> i,
                       num_agents |-> n]
           /\ outcome' = calculate_improvement_gain(b, i, n)
    /\ UNCHANGED results

CallVerificationFeedback ==
    /\ call = Idle
    /\ \E b \in CoarseAccs, v \in CoarseAccs :
           /\ call' = [op |-> "verification_feedback",
                       base_accuracy |-> b, verification_accuracy |-> v]
           /\ outcome' = verification_feedback(b, v)
    /\ UNCHANGED results

CallRetryFeedback ==
    /\ call = Idle
    /\ \E b \in CoarseAccs, k \in Retries :
           /\ call' = [op |-> "retry_feedback",
                       base_accuracy |-> b, num_retries |-> k]
           /\ outcome' = retry_feedback(b, k)
    /\ UNCHANGED results

CallSelfCheckingFeedback ==
    /\ call = Idle
    /\ \E b \in CoarseAccs, c \in CoarseAccs :
           /\ call' = [op |-> "self_checking_feedback",
                       base_accuracy |-> b, check_accuracy |-> c]
           /\ outcome' = self_checking_feedback(b, c)
    /\ UNCHANGED results

\* the caller takes the outcome and goes on to its next call
Continue ==
    /\ call # Idle
    /\ call' = Idle
    /\ outcome' = NoOutcome
    /\ UNCHANGED results

Next ==
    \/ CallSystemAccuracy
    \/ CallDerivative
    \/ CallImprovementGain
    \/ CallVerificationFeedback
    \/ CallRetryFeedback
    \/ CallSelfCheckingFeedback
    \/ Continue

Spec == Init /\ [][Next]_vars

(***************************************************************************)
(* Reference notions used to state the properties.                         *)
(***************************************************************************)
\* p is in (0, 1]
Valid(p) == Num(p) > 0 /\ Num(p) <= Den(p)

\* p is in [0, 1]
InUnit(p) == Num(p) >= 0 /\ Num(p) <= Den(p)

\* p^n by repeated multiplication, n >= 0
RECURSIVE Power(_, _)
Power(p, n) == IF n = 0 THEN One ELSE RMul(p, Power(p, n - 1))

RAbs(x) == Q(Abs(Num(x)), Den(x))

AccuracyError ==
    /\ outcome.kind = "raise"
    /\ outcome.exc = "ValueError"
    /\ outcome.msg = AccuracyMsg

ChainLengthError ==
    /\ outcome.kind = "raise"
    /\ outcome.exc = "ValueError"
    /\ outcome.msg = ChainLengthMsg

\* the grid an accuracy was drawn from
GridOf(p) == IF p \in CoarseAccs THEN CoarseAccs ELSE FineAccs

(***************************************************************************)
(* C1: calculate_system_accuracy(p, n) raises the accuracy error for every *)
(* p outside (0, 1], raises for every n < 1 (the chain-length error when p *)
(* itself is valid: the accuracy is validated first), and for p in (0, 1]  *)
(* and n >= 1 it returns p^n.                                              *)
(***************************************************************************)
SystemAccuracyContract ==
    call.op = "calculate_system_accuracy" =>
        LET p == call.agent_accuracy
            n == call.num_agents
        IN  /\ ~Valid(p) => AccuracyError
            /\ n < 1 => AccuracyError \/ ChainLengthError
            /\ Valid(p) /\ n < 1 => ChainLengthError
            /\ Valid(p) /\ n >= 1 => outcome = Return(Power(p, n))

\* a valid accuracy with a chain length below 1 has been rejected
SystemAccuracyRejectsChain ==
    /\ call.op = "calculate_system_accuracy"
    /\ Valid(call.agent_accuracy)
    /\ call.num_agents < 1
    /\ ChainLengthError

(***************************************************************************)
(* C2: calculate_derivative(p, n) validates like calculate_system_accuracy:*)
(* it raises the accuracy error for p outside (0, 1], raises for n < 1,    *)
(* and only for p in (0, 1] and n >= 1 returns n * p^(n-1).                *)
(***************************************************************************)
DerivativeValidates ==
    call.op = "calculate_derivative" =>
        LET p == call.agent_accuracy
            n == call.num_agents
        IN  /\ ~Valid(p) => AccuracyError
            /\ n < 1 => AccuracyError \/ ChainLengthError
            /\ Valid(p) /\ n < 1 => ChainLengthError
            /\ Valid(p) /\ n >= 1 =>
                   outcome = Return(RMul(FromInt(n), Power(p, n - 1)))

(***************************************************************************)
(* C3: calculate_improvement_gain(base, improved, n) raises the accuracy   *)
(* or the chain-length error of calculate_system_accuracy whenever base or *)
(* improved is outside (0, 1] or n < 1, and then returns no report.        *)
(***************************************************************************)
GainRejectsInvalid ==
    call.op = "calculate_improvement_gain" =>
        LET b == call.base_accuracy
            i == call.improved_accuracy
            n == call.num_agents
        IN  (~Valid(b) \/ ~Valid(i) \/ n < 1) =>
                /\ outcome.kind = "raise"
                /\ "value" \notin DOMAIN outcome
                /\ AccuracyError \/ ChainLengthError
                /\ ~Valid(b) => AccuracyError
                /\ Valid(b) /\ n < 1 => ChainLengthError
                /\ Valid(b) /\ n >= 1 => AccuracyError

\* a valid base and chain length with an improved accuracy outside (0, 1]
GainRejectsImproved ==
    /\ call.op = "calculate_improvement_gain"
    /\ Valid(call.base_accuracy)
    /\ call.num_agents >= 1
    /\ ~Valid(call.improved_accuracy)
    /\ AccuracyError

(***************************************************************************)
(* C4: feedback closure.  For base in (0, 1], a verification or check      *)
(* accuracy in [0, 1] and num_retries >= 1, each feedback transform        *)
(* returns r with base <= r <= 1, so r is in (0, 1] and is accepted by     *)
(* calculate_system_accuracy.                                              *)
(***************************************************************************)
FeedbackOps ==
    {"verification_feedback", "retry_feedback", "self_checking_feedback"}

\* the mechanism parameter of the feedback call is in its documented range
ParameterInRange ==
    CASE call.op = "verification_feedback" -> InUnit(call.verification_accuracy)
      [] call.op = "retry_feedback" -> call.num_retries >= 1
      [] call.op = "self_checking_feedback" -> InUnit(call.check_accuracy)

FeedbackRejectsBadParameter ==
    (call.op \in FeedbackOps /\ Valid(call.base_accuracy) /\ ~ParameterInRange) =>
        /\ outcome.kind = "raise"
        /\ outcome.exc = "InvalidMechanismParameter"

SmallStep ==
    /\ call.op = "calculate_improvement_gain"
    /\ outcome.kind = "return"
    /\ outcome.value.delta_p # Zero
    /\ RLeq(RAbs(outcome.value.delta_p), Rat(1, 100))

WithinTenPercent ==
    LET r == outcome.value
    IN  RLess(RMul(FromInt(10),
                   RAbs(RSub(r.theoretical_gain_approx, r.absolute_gain))),
              RAbs(r.absolute_gain))

NearBase ==
    RLess(RMul(FromInt(11 * (call.num_agents - 1)), RAbs(outcome.value.delta_p)),
          call.base_accuracy)

=============================================================================
